---- MODULE Spec2Model ----
(***************************************************************************)
(* Battleships (src/battleships/battleships.py): the two Users with their  *)
(* boards, knowledge boards and ship lists, fleet placement, shot          *)
(* resolution and the turn loop of battleships().                          *)
(*                                                                         *)
(* The board of the source is 10 x 10 and the fleet is 5,4,3,3,2.  The     *)
(* model keeps the code of every operation and runs it on a small board    *)
(* with a small fleet (BOARD_WIDTH, BOARD_HEIGHT, SHIP_LENGTHS and the     *)
(* hard-coded player ships, TEST_SHIPS), so that every game can be         *)
(* enumerated.  BOARD_WIDTH is the dimension that is varied; the number of *)
(* rows stays fixed.                                                       *)
(*                                                                         *)
(* The modules vec2 and battleships.ai are not part of the source at hand: *)
(* Vec2, vec_add, vec_scalar_multiply and the opponent's turn (AIUpdate,   *)
(* AIUpdateExit) follow the specification.                                 *)
(***************************************************************************)
EXTENDS Integers, Sequences, FiniteSets, TLC

VARIABLES board, knowledge, ships, pc, idx, result, ai_state, outcome, call,
          pre, rounds

vars ==
  <<board, knowledge, ships, pc, idx, result, ai_state, outcome, call, pre,
    rounds>>

(***************************************************************************)
(* Constants of the program, scaled.                                       *)
(***************************************************************************)
\* LOOP_MAX = 100000: the number of draws random_square makes before exit(1).
LOOP_MAX == 100000
\* BOARD_WIDTH = 10 in the source; scaled down, and the bound of the model.
BOARD_WIDTH == 2
\* BOARD_HEIGHT = 10 in the source; scaled down.
BOARD_HEIGHT == 2
\* SHIP_LENGTHS = [5, 4, 3, 3, 2] in the source; scaled down, still in
\* decreasing order.
SHIP_LENGTHS == <<2, 1>>
\* The longest ship the placement harness (SpecPlace) asks for.
MaxLen == 2

Players == {"ai", "player"}

Other(p) == IF p = "ai" THEN "player" ELSE "ai"

(***************************************************************************)
(* vec2: integer pairs compared by value.                                  *)
(***************************************************************************)
Vec2(a, b) == [x |-> a, y |-> b]

vec_add(a, b) == Vec2(a.x + b.x, a.y + b.y)

vec_scalar_multiply(v, k) == Vec2(v.x * k, v.y * k)

\* class Orientation
Orientation ==
  [N |-> Vec2(0, -1), E |-> Vec2(1, 0), S |-> Vec2(0, 1), W |-> Vec2(-1, 0)]

OrientationNames == {"N", "E", "S", "W"}

\* class SquareState
SquareState == {"EMPTY", "SHIP", "MISS", "HIT"}

\* class KnowledgeSquareState
KnowledgeSquareState == {"UNKNOWN", "MISS", "HIT"}

\* class FireResult
FireResult == {"HIT", "MISS", "FAIL", "SUNK"}

(***************************************************************************)
(* Boards: board[y][x], rows and columns counted from 0.                   *)
(***************************************************************************)
new_board(default, height, width) ==
  [r \in 0..(height - 1) |-> [c \in 0..(width - 1) |-> default]]

BoardHeightOf(b) == Cardinality(DOMAIN b)

BoardWidthOf(b) == Cardinality(DOMAIN b[0])

\* square_in_board that forgets the rows.
square_in_board_XOnly(square, b) ==
  0 <= square.x /\ square.x < BoardWidthOf(b)

square_in_board(square, b) ==
  /\ 0 <= square.x /\ square.x < BoardWidthOf(b)
  /\ 0 <= square.y /\ square.y < BoardHeightOf(b)

Cell(b, square) == b[square.y][square.x]

\* A write that indexes the board by column first.
SetCell_Transposed(b, square, v) == [b EXCEPT ![square.x][square.y] = v]

SetCell(b, square, v) == [b EXCEPT ![square.y][square.x] = v]

\* Every coordinate of a board.
Squares(b) ==
  {Vec2(c, r) : c \in 0..(BoardWidthOf(b) - 1), r \in 0..(BoardHeightOf(b) - 1)}

extend(origin, direction, length) ==
  vec_add(origin, vec_scalar_multiply(direction, length))

\* The elements of a sequence.
Range(s) == {s[i] : i \in 1..Len(s)}

(***************************************************************************)
(* class Ship                                                              *)
(***************************************************************************)
Ship(squares) == [hits |-> 0, sunk |-> FALSE, squares |-> squares]

\* Ship.hit that compares before it counts the hit.
ShipHit_OffByOne(ship) ==
  IF ship.hits = Len(ship.squares)
  THEN [ship |-> [ship EXCEPT !.hits = ship.hits + 1, !.sunk = TRUE],
        ret |-> TRUE]
  ELSE [ship |-> [ship EXCEPT !.hits = ship.hits + 1], ret |-> FALSE]

\* Ship.hit that returns True without setting the flag.
ShipHit_NoFlag(ship) ==
  [ship |-> [ship EXCEPT !.hits = ship.hits + 1],
   ret |-> ship.hits + 1 = Len(ship.squares)]

\* Ship.hit: the ship after the call and what the call returns.
ShipHit(ship) ==
  LET h == ship.hits + 1
  IN  IF h = Len(ship.squares)
      THEN [ship |-> [ship EXCEPT !.hits = h, !.sunk = TRUE], ret |-> TRUE]
      ELSE [ship |-> [ship EXCEPT !.hits = h], ret |-> FALSE]

(***************************************************************************)
(* new_valid_ship                                                          *)
(***************************************************************************)
\* range(1, length) in place of range(length).
ShipSquares_OneShort(origin, orientation, length) ==
  [i \in 1..(length - 1) |-> extend(origin, Orientation[orientation], i)]

\* squares = [extend(origin, orientation.value, i) for i in range(length)]
ShipSquares(origin, orientation, length) ==
  [i \in 1..length |-> extend(origin, Orientation[orientation], i - 1)]

\* all(square_in_board(square, owner.board) for square in squares)
AllInBoard(squares, b) ==
  \A i \in 1..Len(squares) : square_in_board(squares[i], b)

\* The overlap check made for the origin only.
OverlapsExisting_OriginOnly(squares, shipList) ==
  \E k \in 1..Len(shipList) : squares[1] \in Range(shipList[k].squares)

\* any(len([s for s in squares if s in existing_ship.squares]) > 0
\*     for existing_ship in owner.ships)
OverlapsExisting(squares, shipList) ==
  \E k \in 1..Len(shipList) :
    Cardinality({i \in 1..Len(squares) :
                   squares[i] \in Range(shipList[k].squares)}) > 0

\* A marking that stops after the first square of the ship.
MarkShip_OriginOnly(b, squares) ==
  [r \in DOMAIN b |->
    [c \in DOMAIN b[r] |->
      IF Vec2(c, r) = squares[1] THEN "SHIP" ELSE b[r][c]]]

\* for square in new_ship.squares: owner.board[square.y][square.x] = SHIP
MarkShip(b, squares) ==
  [r \in DOMAIN b |->
    [c \in DOMAIN b[r] |->
      IF Vec2(c, r) \in Range(squares) THEN "SHIP" ELSE b[r][c]]]

\* The call new_valid_ship(origin, orientation, length, owner): what it
\* returns ("None" or "Ship") and the owner's ship list and board after it.
new_valid_ship(origin, orientation, length, owner) ==
  LET squares == ShipSquares(origin, orientation, length)
  IN  IF ~AllInBoard(squares, board[owner])
      THEN [ret |-> "None", ships |-> ships[owner], board |-> board[owner]]
      ELSE IF OverlapsExisting(squares, ships[owner])
      THEN [ret |-> "None", ships |-> ships[owner], board |-> board[owner]]
      ELSE [ret |-> "Ship",
            ships |-> Append(ships[owner], Ship(squares)),
            board |-> MarkShip(board[owner], squares)]

(***************************************************************************)
(* fire_missile                                                            *)
(***************************************************************************)
\* fire_missile without its guard.
AlreadyFired_Never(coord, source) == FALSE

\* source.knowledge[coord.y][coord.x] != KnowledgeSquareState.UNKNOWN
AlreadyFired(coord, source) == Cell(knowledge[source], coord) # "UNKNOWN"

\* for ship in target.ships: if coord in ship.squares: the index of the first
\* such ship, 0 when the loop runs to its else branch.
FirstShipAt(coord, shipList) ==
  LET at == {k \in 1..Len(shipList) : coord \in Range(shipList[k].squares)}
  IN  IF at = {} THEN 0 ELSE CHOOSE k \in at : \A j \in at : k <= j

\* fire_missile that marks the shooter's knowledge board and leaves the
\* target's board alone.
fire_missile_KnowledgeOnly(coord, source, target) ==
  LET k == FirstShipAt(coord, ships[target])
  IN  IF AlreadyFired(coord, source)
      THEN [ret |-> "FAIL", knowledge |-> knowledge[source],
            board |-> board[target], ships |-> ships[target]]
      ELSE IF k # 0
      THEN LET sunk == ShipHit(ships[target][k])
           IN  [ret |-> IF sunk.ret THEN "SUNK" ELSE "HIT",
                knowledge |-> SetCell(knowledge[source], coord, "HIT"),
                board |-> board[target],
                ships |-> [ships[target] EXCEPT ![k] = sunk.ship]]
      ELSE [ret |-> "MISS",
            knowledge |-> SetCell(knowledge[source], coord, "MISS"),
            board |-> board[target],
            ships |-> ships[target]]

\* fire_missile that records a miss on the shooter's knowledge board only.
fire_missile_MissUnmarked(coord, source, target) ==
  LET k == FirstShipAt(coord, ships[target])
  IN  IF AlreadyFired(coord, source)
      THEN [ret |-> "FAIL", knowledge |-> knowledge[source],
            board |-> board[target], ships |-> ships[target]]
      ELSE IF k # 0
      THEN LET sunk == ShipHit(ships[target][k])
           IN  [ret |-> IF sunk.ret THEN "SUNK" ELSE "HIT",
                knowledge |-> SetCell(knowledge[source], coord, "HIT"),
                board |-> SetCell(board[target], coord, "HIT"),
                ships |-> [ships[target] EXCEPT ![k] = sunk.ship]]
      ELSE [ret |-> "MISS",
            knowledge |-> SetCell(knowledge[source], coord, "MISS"),
            board |-> board[target],
            ships |-> ships[target]]

\* The call fire_missile(coord, source, target): the FireResult, the source's
\* knowledge board, the target's board and the target's ships after it.
fire_missile(coord, source, target) ==
  LET k == FirstShipAt(coord, ships[target])
  IN  IF AlreadyFired(coord, source)
      THEN [ret |-> "FAIL", knowledge |-> knowledge[source],
            board |-> board[target], ships |-> ships[target]]
      ELSE IF k # 0
      THEN LET sunk == ShipHit(ships[target][k])
           IN  [ret |-> IF sunk.ret THEN "SUNK" ELSE "HIT",
                knowledge |-> SetCell(knowledge[source], coord, "HIT"),
                board |-> SetCell(board[target], coord, "HIT"),
                ships |-> [ships[target] EXCEPT ![k] = sunk.ship]]
      ELSE [ret |-> "MISS",
            knowledge |-> SetCell(knowledge[source], coord, "MISS"),
            board |-> SetCell(board[target], coord, "MISS"),
            ships |-> ships[target]]

(***************************************************************************)
(* decode_notation                                                         *)
(***************************************************************************)
\* The characters the human's input is drawn from.
Chars == {"a", "b", "c", "B", "0", "1", "2"}

\* The characters decode_notation is examined on: those of Chars, further
\* letters and digits of the 10 x 10 board, characters that are neither,
\* U+0130 (capital I with dot above, whose lower case is the two characters
\* i and U+0307) and U+0663 (the Arabic-Indic digit three).
AllChars ==
  Chars \cup {"A", "i", "I", "j", "J", "k", "3", "9", "-", " ",
              "U0130", "U0663"}

\* ord(ch)
Ord(ch) ==
  CASE ch = "a" -> 97 [] ch = "b" -> 98 [] ch = "c" -> 99 [] ch = "B" -> 66
    [] ch = "0" -> 48 [] ch = "1" -> 49 [] ch = "2" -> 50
    [] ch = "A" -> 65 [] ch = "i" -> 105 [] ch = "I" -> 73
    [] ch = "j" -> 106 [] ch = "J" -> 74 [] ch = "k" -> 107
    [] ch = "3" -> 51 [] ch = "9" -> 57 [] ch = "-" -> 45 [] ch = " " -> 32
    [] ch = "U0130" -> 304 [] ch = "U0307" -> 775 [] ch = "U0663" -> 1635

\* str.lower() of a text of one character: a text of one or two characters.
LowerChar(ch) ==
  CASE ch = "A" -> <<"a">> [] ch = "B" -> <<"b">> [] ch = "I" -> <<"i">>
    [] ch = "J" -> <<"j">> [] ch = "U0130" -> <<"i", "U0307">>
    [] OTHER -> <<ch>>

\* str.lower() of a text: the lower case of its characters, one after another.
RECURSIVE Lower(_)
Lower(text) ==
  IF text = <<>> THEN <<>> ELSE LowerChar(Head(text)) \o Lower(Tail(text))

\* What the human types: every two-character text, and texts of other lengths.
Texts ==
  {<<c1, c2>> : c1 \in Chars, c2 \in Chars}
    \cup {<<>>, <<"a">>, <<"a", "0", "0">>}

\* The texts decode_notation is examined on in isolation.
DecodeTexts ==
  {<<c1, c2>> : c1 \in AllChars, c2 \in AllChars}
    \cup {<<>>, <<"a">>, <<"a", "0", "0">>, <<"U0130">>}

\* text.lower() of every text above.
LowerTable == [text \in Texts \cup DecodeTexts |-> Lower(text)]

\* int(ch) raises ValueError unless ch is a decimal digit
IsDigit(ch) == ch \in {"0", "1", "2", "3", "9", "U0663"}

\* int(ch): the value of the decimal digit, whatever its script
IntOf(ch) == IF ch = "U0663" THEN Ord(ch) - 1632 ELSE Ord(ch) - 48

NoVec == Vec2(-9, -9)

\* decode_notation(text, board): the Vec2, or NoVec for None.
decode_notation(text, b) ==
  IF Len(text) # 2 THEN NoVec
  ELSE LET row == Ord(LowerTable[text][1]) - 97
       IN  IF ~IsDigit(text[2]) THEN NoVec
           ELSE IF ~square_in_board(Vec2(IntOf(text[2]), row), b) THEN NoVec
           ELSE Vec2(IntOf(text[2]), row)

(***************************************************************************)
(* random_square                                                           *)
(***************************************************************************)
\* random_square that returns the first coordinate it draws.
random_square_AnySquare(b, matching) ==
  IF LOOP_MAX > 0 THEN Squares(b) ELSE {}

\* The coordinates random_square(board, matching) can return: one of the
\* LOOP_MAX draws lands on a cell that holds `matching`.
random_square(b, matching) ==
  IF LOOP_MAX > 0 THEN {sq \in Squares(b) : Cell(b, sq) = matching} ELSE {}

\* random_square reaches exit(1) when every draw lands on a cell that does
\* not hold `matching`.
random_square_exits(b, matching) ==
  LOOP_MAX = 0 \/ \E sq \in Squares(b) : Cell(b, sq) # matching

(***************************************************************************)
(* State.  board, knowledge and ships are the fields of the two Users; pc  *)
(* is the position in battleships(); idx is the position of the placement  *)
(* loops in their lists; result, ai_state are the locals of the main loop; *)
(* outcome is the message of the win condition.  call records the last     *)
(* call of new_valid_ship or fire_missile with its arguments and its       *)
(* return value, pre holds the Users as they were when the last step       *)
(* began, and rounds counts the completed rounds of the main loop.         *)
(***************************************************************************)
NoCall ==
  [op |-> "none", coord |-> NoVec, orientation |-> "N", length |-> 0,
   user |-> "ai", text |-> <<>>, ret |-> "None"]

PlaceCallOf(origin, orientation, length, owner, ret) ==
  [op |-> "new_valid_ship", coord |-> origin, orientation |-> orientation,
   length |-> length, user |-> owner, text |-> <<>>, ret |-> ret]

\* decode_notation returned None in the main loop ("Error: invalid square").
InvalidSquare ==
  [op |-> "invalid_square", coord |-> NoVec, orientation |-> "N", length |-> 0,
   user |-> "player", text |-> <<>>, ret |-> "None"]

FireCallOf(coord, source, ret) ==
  [op |-> "fire_missile", coord |-> coord, orientation |-> "N", length |-> 0,
   user |-> source, text |-> <<>>, ret |-> ret]

\* square = decode_notation(inp, player.board): the text and the square.
DecodeCallOf(text, square) ==
  [op |-> "decode_notation", coord |-> square, orientation |-> "N",
   length |-> 0, user |-> "player", text |-> text,
   ret |-> IF square = NoVec THEN "None" ELSE "Vec2"]

\* The Users as they are now.
Users == [board |-> board, knowledge |-> knowledge, ships |-> ships]

\* class User: __init__
NewUsers ==
  /\ board = [p \in Players |-> new_board("EMPTY", BOARD_HEIGHT, BOARD_WIDTH)]
  /\ ships = [p \in Players |-> <<>>]
  /\ knowledge =
       [p \in Players |-> new_board("UNKNOWN", BOARD_HEIGHT, BOARD_WIDTH)]

\* The hard-coded ships of the player (the TEST block), scaled to the board:
\* as in the source they are all valid, and their lengths are not in the order
\* of SHIP_LENGTHS.
TEST_SHIPS == << <<Vec2(0, 0), "E", 1>>, <<Vec2(0, 1), "E", 2>> >>

\* available_ship_lengths = [] after the TEST block: the interactive
\* placement loop below it is never entered.
available_ship_lengths == <<>>

Init ==
  /\ NewUsers
  /\ pc = "ai_place"
  /\ idx = 1
  /\ result = "FAIL"
  /\ ai_state = "RandomState"
  /\ outcome = "none"
  /\ call = NoCall
  /\ pre = Users
  /\ rounds = 0

\* The main loop entered right after the AI's placement.
AfterAIPlacement_MainLoop == "player_turn"

\* The phase that follows the AI's placement loop.
AfterAIPlacement == "player_place"

\* One pass of `while new_ship is None` for SHIP_LENGTHS[idx].
AIPlace ==
  /\ pc = "ai_place"
  /\ pre' = Users
  /\ \E origin \in random_square(board["ai"], "EMPTY"), o \in OrientationNames :
       LET length == SHIP_LENGTHS[idx]
           r == new_valid_ship(origin, o, length, "ai")
       IN  /\ ships' = [ships EXCEPT !["ai"] = r.ships]
           /\ board' = [board EXCEPT !["ai"] = r.board]
           /\ call' = PlaceCallOf(origin, o, length, "ai", r.ret)
           /\ IF r.ret = "None"
              THEN UNCHANGED <<pc, idx>>
              ELSE IF idx < Len(SHIP_LENGTHS)
              THEN idx' = idx + 1 /\ UNCHANGED pc
              ELSE idx' = 1 /\ pc' = AfterAIPlacement
  /\ UNCHANGED <<knowledge, result, ai_state, outcome, rounds>>

\* random_square(ai.board, SquareState.EMPTY) ends the process.
AIPlaceExit ==
  /\ pc = "ai_place"
  /\ pre' = Users
  /\ random_square_exits(board["ai"], "EMPTY")
  /\ pc' = "exit"
  /\ call' = NoCall
  /\ UNCHANGED <<board, knowledge, ships, idx, result, ai_state, outcome, rounds>>

\* [new_valid_ship(s[0], s[1], s[2], player) for s in ships], one element.
PlayerPlace ==
  /\ pc = "player_place"
  /\ pre' = Users
  /\ LET s == TEST_SHIPS[idx]
         r == new_valid_ship(s[1], s[2], s[3], "player")
     IN  /\ ships' = [ships EXCEPT !["player"] = r.ships]
         /\ board' = [board EXCEPT !["player"] = r.board]
         /\ call' = PlaceCallOf(s[1], s[2], s[3], "player", r.ret)
  /\ IF idx < Len(TEST_SHIPS)
     THEN idx' = idx + 1 /\ UNCHANGED <<pc, result>>
     ELSE /\ idx' = 1
          /\ Len(available_ship_lengths) = 0
          /\ pc' = "player_turn"
          /\ result' = "FAIL"
  /\ UNCHANGED <<knowledge, ai_state, outcome, rounds>>

\* A player's turn that ends with any result.
AfterShot_Always(ret) == "ai_turn"

\* while result == FireResult.FAIL: the loop goes round again on FAIL and
\* ends on any other result.
AfterShot(ret) == IF ret = "FAIL" THEN "player_turn" ELSE "ai_turn"

\* One pass of `while result == FireResult.FAIL` of the player's turn.
PlayerShot ==
  /\ pc = "player_turn"
  /\ pre' = Users
  /\ result = "FAIL"
  /\ \E square \in {decode_notation(inp, board["player"]) : inp \in Texts} :
           IF square = NoVec
           THEN /\ call' = InvalidSquare
                /\ UNCHANGED <<board, knowledge, ships, pc, result>>
           ELSE LET r == fire_missile(square, "player", "ai")
                IN  /\ result' = r.ret
                    /\ knowledge' = [knowledge EXCEPT !["player"] = r.knowledge]
                    /\ board' = [board EXCEPT !["ai"] = r.board]
                    /\ ships' = [ships EXCEPT !["ai"] = r.ships]
                    /\ call' = FireCallOf(square, "player", r.ret)
                    /\ pc' = AfterShot(r.ret)
  /\ UNCHANGED <<idx, ai_state, outcome, rounds>>

\* RandomState.update(ai, player): fire at a square drawn among those the AI
\* has not fired at; the state object stays the same.
AIUpdate ==
  /\ pc = "ai_turn"
  /\ pre' = Users
  /\ \E target \in random_square(knowledge["ai"], "UNKNOWN") :
       LET r == fire_missile(target, "ai", "player")
       IN  /\ knowledge' = [knowledge EXCEPT !["ai"] = r.knowledge]
           /\ board' = [board EXCEPT !["player"] = r.board]
           /\ ships' = [ships EXCEPT !["player"] = r.ships]
           /\ call' = FireCallOf(target, "ai", r.ret)
  /\ pc' = "win_check"
  /\ rounds' = rounds + 1
  /\ UNCHANGED <<idx, result, ai_state, outcome>>

\* random_square(ai.knowledge, KnowledgeSquareState.UNKNOWN) ends the process.
AIUpdateExit ==
  /\ pc = "ai_turn"
  /\ pre' = Users
  /\ random_square_exits(knowledge["ai"], "UNKNOWN")
  /\ pc' = "exit"
  /\ call' = NoCall
  /\ UNCHANGED <<board, knowledge, ships, idx, result, ai_state, outcome, rounds>>

\* any() in place of all().
AllSunk_Any(p) == \E k \in 1..Len(ships[p]) : ships[p][k].sunk

\* all(ship.sunk for ship in user.ships)
AllSunk(p) == \A k \in 1..Len(ships[p]) : ships[p][k].sunk

\* The win condition at the end of a pass of the main loop.
WinCheck ==
  /\ pc = "win_check"
  /\ pre' = Users
  /\ IF AllSunk("player")
     THEN pc' = "over" /\ outcome' = "LOST" /\ UNCHANGED result
     ELSE IF AllSunk("ai")
     THEN pc' = "over" /\ outcome' = "WON" /\ UNCHANGED result
     ELSE pc' = "player_turn" /\ result' = "FAIL" /\ UNCHANGED outcome
  /\ call' = NoCall
  /\ UNCHANGED <<board, knowledge, ships, idx, ai_state, rounds>>

Next ==
  \/ AIPlace
  \/ AIPlaceExit
  \/ PlayerPlace
  \/ PlayerShot
  \/ AIUpdate
  \/ AIUpdateExit
  \/ WinCheck

Spec == Init /\ [][Next]_vars

\* A pass of the player's turn in which the human enters a square that is on
\* the board and not yet fired at.
EffectiveShot == PlayerShot /\ pc' = "ai_turn"

\* The running program: battleships() is sequential and takes its next step
\* as long as it has one, and the human, asked again after every invalid or
\* repeated square, enters a fresh square in the end.
SpecLive == Init /\ [][Next]_vars /\ WF_vars(Next) /\ WF_vars(EffectiveShot)

(***************************************************************************)
(* The placement harness: any sequence of new_valid_ship calls on one      *)
(* owner, with origins on and around the board, every orientation and      *)
(* every length up to MaxLen.  A call is made at "unit" and its arguments  *)
(* and return value stay in `call` until the harness takes the next one.   *)
(***************************************************************************)
InitPlace ==
  /\ NewUsers
  /\ pc = "unit"
  /\ idx = 1
  /\ result = "FAIL"
  /\ ai_state = "RandomState"
  /\ outcome = "none"
  /\ call = NoCall
  /\ pre = Users
  /\ rounds = 0

\* The User the harness places ships for.
HarnessOwner == "player"

PlaceCall ==
  /\ pc = "unit"
  /\ pre' = Users
  /\ \E ox \in (-1)..BOARD_WIDTH, oy \in (-1)..BOARD_HEIGHT,
        o \in OrientationNames, length \in 1..MaxLen :
       LET r == new_valid_ship(Vec2(ox, oy), o, length, HarnessOwner)
       IN  /\ ships' = [ships EXCEPT ![HarnessOwner] = r.ships]
           /\ board' = [board EXCEPT ![HarnessOwner] = r.board]
           /\ call' = PlaceCallOf(Vec2(ox, oy), o, length, HarnessOwner, r.ret)
  /\ pc' = "called"
  /\ UNCHANGED <<knowledge, idx, result, ai_state, outcome, rounds>>

PlaceReturn ==
  /\ pc = "called"
  /\ pre' = Users
  /\ pc' = "unit"
  /\ call' = NoCall
  /\ UNCHANGED <<board, knowledge, ships, idx, result, ai_state, outcome, rounds>>

NextPlace == PlaceCall \/ PlaceReturn

SpecPlace == InitPlace /\ [][NextPlace]_vars

(***************************************************************************)
(* The decoding harness: decode_notation on every text of two characters   *)
(* of AllChars and on texts of other lengths, against a board of the       *)
(* source's size, 10 x 10.  A call is made at "unit_decode" and its text   *)
(* and return value stay in `call` until the harness takes the next one.   *)
(***************************************************************************)
DecodeBoard == new_board("EMPTY", 10, 10)

InitDecode ==
  /\ board = [p \in Players |-> DecodeBoard]
  /\ knowledge = [p \in Players |-> new_board("UNKNOWN", 10, 10)]
  /\ ships = [p \in Players |-> <<>>]
  /\ pc = "unit_decode"
  /\ idx = 1
  /\ result = "FAIL"
  /\ ai_state = "RandomState"
  /\ outcome = "none"
  /\ call = NoCall
  /\ pre = Users
  /\ rounds = 0

DecodeCall ==
  /\ pc = "unit_decode"
  /\ pre' = Users
  /\ \E inp \in DecodeTexts :
       call' = DecodeCallOf(inp, decode_notation(inp, board["player"]))
  /\ pc' = "decoded"
  /\ UNCHANGED <<board, knowledge, ships, idx, result, ai_state, outcome, rounds>>

DecodeReturn ==
  /\ pc = "decoded"
  /\ pre' = Users
  /\ pc' = "unit_decode"
  /\ call' = NoCall
  /\ UNCHANGED <<board, knowledge, ships, idx, result, ai_state, outcome, rounds>>

NextDecode == DecodeCall \/ DecodeReturn

SpecDecode == InitDecode /\ [][NextDecode]_vars

(***************************************************************************)
(* Vocabulary of the properties.                                           *)
(***************************************************************************)
FireCall == call.op = "fire_missile"

PlacementCall == call.op = "new_valid_ship"

Effective == {"HIT", "MISS", "SUNK"}

\* The squares of board b that hold state v.
CellsWith(b, v) == {sq \in Squares(b) : Cell(b, sq) = v}

\* How many squares a User has fired at.
Known(p) == Cardinality(Squares(knowledge[p]) \ CellsWith(knowledge[p], "UNKNOWN"))

\* The coordinate is one of the squares of a ship of the list.
OnAShip(coord, shipList) ==
  \E k \in 1..Len(shipList) : coord \in Range(shipList[k].squares)

\* The coordinate lies on the grid [0, BOARD_WIDTH) x [0, BOARD_HEIGHT).
OnGrid(coord) ==
  /\ coord.x \in 0..(BOARD_WIDTH - 1)
  /\ coord.y \in 0..(BOARD_HEIGHT - 1)

RECURSIVE SumLengths(_)
SumLengths(shipList) ==
  IF shipList = <<>> THEN 0
  ELSE Len(Head(shipList).squares) + SumLengths(Tail(shipList))

\* The squares of a ship whose cell on its owner's board is HIT.
HitSquares(p, k) ==
  {sq \in Range(ships[p][k].squares) : Cell(board[p], sq) = "HIT"}

(***************************************************************************)
(* C1.  A fire_missile call at a coordinate the shooter has not fired at   *)
(* returns HIT, MISS or SUNK and changes the state; a call at a coordinate *)
(* the shooter has already fired at returns FAIL and leaves both boards,   *)
(* both knowledge boards and every ship unchanged; and a knowledge cell    *)
(* that has left UNKNOWN never returns to it, so every later call at the   *)
(* coordinate is such a call.                                              *)
(***************************************************************************)
C1_SecondShotFails ==
  /\ \A p \in Players : \A sq \in Squares(knowledge[p]) :
       Cell(pre.knowledge[p], sq) # "UNKNOWN" => Cell(knowledge[p], sq) # "UNKNOWN"
  /\ FireCall =>
       IF Cell(pre.knowledge[call.user], call.coord) # "UNKNOWN"
       THEN call.ret = "FAIL" /\ Users = pre
       ELSE /\ call.ret \in Effective
            /\ Users # pre
            /\ Cell(knowledge[call.user], call.coord) # "UNKNOWN"

\* A second call at a coordinate has been made.
C1_Witness ==
  /\ FireCall
  /\ call.ret = "FAIL"
  /\ Cell(pre.knowledge[call.user], call.coord) # "UNKNOWN"

(***************************************************************************)
(* C2.  new_valid_ship returns no ship whenever one of the squares         *)
(* origin + i*direction, i = 0..length-1, is off the owner's board or      *)
(* belongs to one of the owner's ships, and then the owner's ship list and *)
(* board are unchanged.                                                    *)
(***************************************************************************)
C2_InvalidPlacement ==
  LET squares == ShipSquares(call.coord, call.orientation, call.length)
  IN  \/ \E i \in 1..call.length : ~OnGrid(squares[i])
      \/ \E i \in 1..call.length : OnAShip(squares[i], pre.ships[call.user])

C2_InvalidPlacementRejected ==
  (PlacementCall /\ C2_InvalidPlacement) =>
     /\ call.ret = "None"
     /\ ships[call.user] = pre.ships[call.user]
     /\ board[call.user] = pre.board[call.user]

\* A placement that lies on the board and runs into an earlier ship has been
\* asked for.
C2_Witness ==
  /\ PlacementCall
  /\ C2_InvalidPlacement
  /\ \A i \in 1..call.length :
       OnGrid(ShipSquares(call.coord, call.orientation, call.length)[i])
  /\ call.length > 1

(***************************************************************************)
(* C3.  While no shot has been fired, the number of cells marked SHIP on   *)
(* an owner's board is the sum of the lengths of the owner's ships, and no *)
(* two ships of the owner share a coordinate.                              *)
(***************************************************************************)
C3_ShipCellsMatchFleet ==
  \A p \in Players :
    /\ Cardinality(CellsWith(board[p], "SHIP")) = SumLengths(ships[p])
    /\ \A j, k \in 1..Len(ships[p]) :
         j # k => Range(ships[p][j].squares) \cap Range(ships[p][k].squares) = {}

\* Two ships have been placed and a third call has been turned down.
C3_Witness ==
  /\ PlacementCall
  /\ call.ret = "None"
  /\ Len(ships[call.user]) >= 2

(***************************************************************************)
(* C4.  A fire_missile call at a coordinate the shooter has not fired at   *)
(* returns HIT or SUNK iff the coordinate belongs to a ship of the target. *)
(* Then the hit counter of exactly that ship has grown by one and the      *)
(* target's board cell and the shooter's knowledge cell are HIT.           *)
(* Otherwise no hit counter has changed, both cells are MISS and the       *)
(* result is MISS.                                                         *)
(***************************************************************************)
C4_HitIffOnShip ==
  (FireCall /\ Cell(pre.knowledge[call.user], call.coord) = "UNKNOWN") =>
    LET s == call.user
        t == Other(call.user)
        c == call.coord
        HitsGrew(p, k) == ships[p][k].hits - pre.ships[p][k].hits
    IN  /\ call.ret \in {"HIT", "SUNK"} <=> OnAShip(c, pre.ships[t])
        /\ \A p \in Players : Len(ships[p]) = Len(pre.ships[p])
        /\ \A k \in 1..Len(ships[s]) : HitsGrew(s, k) = 0
        /\ IF OnAShip(c, pre.ships[t])
           THEN /\ \A k \in 1..Len(ships[t]) :
                     HitsGrew(t, k) =
                       IF c \in Range(pre.ships[t][k].squares) THEN 1 ELSE 0
                /\ Cell(board[t], c) = "HIT"
                /\ Cell(knowledge[s], c) = "HIT"
           ELSE /\ \A k \in 1..Len(ships[t]) : HitsGrew(t, k) = 0
                /\ Cell(board[t], c) = "MISS"
                /\ Cell(knowledge[s], c) = "MISS"
                /\ call.ret = "MISS"

\* A shot has hit a ship without sinking it.
C4_Witness ==
  /\ FireCall
  /\ call.ret = "HIT"
  /\ OnAShip(call.coord, ships[Other(call.user)])

(***************************************************************************)
(* C5.  A ship of length L is sunk exactly when L of its own coordinates   *)
(* have been hit, and the shot that hits a ship returns SUNK exactly when  *)
(* it is the L-th such hit and HIT when it is an earlier one.              *)
(***************************************************************************)
C5_SunkOnLastHit ==
  /\ \A p \in Players : \A k \in 1..Len(ships[p]) :
       ships[p][k].sunk <=>
         Cardinality(HitSquares(p, k)) = Len(ships[p][k].squares)
  /\ (FireCall /\ call.ret \in {"HIT", "SUNK"}) =>
       \E k \in 1..Len(ships[Other(call.user)]) :
         LET ship == ships[Other(call.user)][k]
             nth == Cardinality(HitSquares(Other(call.user), k))
         IN  /\ call.coord \in Range(ship.squares)
             /\ Cell(pre.board[Other(call.user)], call.coord) # "HIT"
             /\ call.ret = "SUNK" <=> nth = Len(ship.squares)
             /\ call.ret = "HIT" <=> nth < Len(ship.squares)

\* The second hit on a ship of two squares has sunk it.
C5_Witness ==
  /\ FireCall
  /\ call.ret = "SUNK"
  /\ \E k \in 1..Len(ships[Other(call.user)]) :
       /\ call.coord \in Range(ships[Other(call.user)][k].squares)
       /\ Len(ships[Other(call.user)][k].squares) > 1

(***************************************************************************)
(* C6.  Every ship of either player has sunk = (hits = len(squares)) and   *)
(* hits <= len(squares).                                                   *)
(***************************************************************************)
C6_ShipInvariant ==
  \A p \in Players : \A k \in 1..Len(ships[p]) :
    /\ ships[p][k].sunk = (ships[p][k].hits = Len(ships[p][k].squares))
    /\ ships[p][k].hits <= Len(ships[p][k].squares)

\* One ship of a player is sunk while another has been hit and is afloat.
C6_Witness ==
  \E p \in Players : \E j, k \in 1..Len(ships[p]) :
    /\ ships[p][j].sunk
    /\ ships[p][k].hits > 0
    /\ ~ships[p][k].sunk

(***************************************************************************)
(* Vocabulary of the game loop.                                            *)
(***************************************************************************)
\* Every ship of the fleet has as many hits as squares.
FleetDestroyed(p) ==
  \A k \in 1..Len(ships[p]) : ships[p][k].hits = Len(ships[p][k].squares)

FleetComplete(p) ==
  Len(ships[p]) = IF p = "ai" THEN Len(SHIP_LENGTHS) ELSE Len(TEST_SHIPS)

NoShotFired == Known("ai") = 0 /\ Known("player") = 0 /\ ~FireCall

(***************************************************************************)
(* C7.  At a win-condition check of the game loop at most one of the two   *)
(* fleets is entirely sunk.                                                *)
(***************************************************************************)
C7_NoDoubleLoss ==
  pc = "win_check" => ~(FleetDestroyed("player") /\ FleetDestroyed("ai"))

(***************************************************************************)
(* C8.  The game is over only by a win-condition check made after an       *)
(* opponent turn at which a fleet is entirely sunk (every ship has hits    *)
(* equal to its length); the player reported as the loser is one whose     *)
(* fleet is entirely sunk; and the game goes on to the next player turn    *)
(* only while both fleets have an un-sunk ship, so it is over at the first *)
(* check that finds a sunk fleet.                                          *)
(***************************************************************************)
C8_GameOverAtFirstSunkFleet ==
  /\ pc = "over" =>
       /\ outcome \in {"LOST", "WON"}
       /\ outcome = "LOST" => FleetDestroyed("player")
       /\ outcome = "WON" => FleetDestroyed("ai")
       /\ Known("ai") = rounds /\ Known("player") = rounds /\ rounds > 0
  /\ pc # "over" => outcome = "none"
  /\ pc = "player_turn" => ~FleetDestroyed("player") /\ ~FleetDestroyed("ai")
  /\ pc = "ai_turn" => ~FleetDestroyed("player")

\* The game has ended with the opponent's fleet sunk and a ship of the human
\* afloat.
C8_Witness ==
  /\ pc = "over"
  /\ outcome = "WON"
  /\ ~FleetDestroyed("player")

(***************************************************************************)
(* C9.  A FAIL result or an invalid square leaves the turn with the human  *)
(* and changes nothing; the opponent's turn begins only on an effective    *)
(* shot of the human (HIT, MISS or SUNK) and ends with one effective shot  *)
(* of the opponent; so after n completed rounds each knowledge board holds *)
(* exactly n cells that are not UNKNOWN.                                   *)
(***************************************************************************)
C9_TurnAlternation ==
  /\ (FireCall /\ call.ret = "FAIL") =>
       call.user = "player" /\ pc = "player_turn" /\ Users = pre
  /\ call = InvalidSquare => pc = "player_turn" /\ Users = pre
  /\ pc = "ai_turn" =>
       /\ FireCall /\ call.user = "player" /\ call.ret \in Effective
       /\ result = call.ret
       /\ Known("player") = rounds + 1 /\ Known("ai") = rounds
  /\ pc = "win_check" =>
       FireCall /\ call.user = "ai" /\ call.ret \in Effective
  /\ pc \in {"player_turn", "win_check", "over"} =>
       Known("player") = rounds /\ Known("ai") = rounds

\* After two completed rounds the human has fired at a square a second time.
C9_Witness ==
  /\ pc = "player_turn"
  /\ rounds >= 2
  /\ FireCall
  /\ call.ret = "FAIL"

(***************************************************************************)
(* C10.  The phases of a game.                                             *)
(***************************************************************************)
\* No shot is fired before both fleets are completely placed, and the
\* opponent has never fired more shots than the human: the first shot is the
\* human's.
C10_ShotsAfterPlacement ==
  /\ ~NoShotFired => FleetComplete("ai") /\ FleetComplete("player")
  /\ Known("ai") <= Known("player")
  /\ pc \in {"ai_place", "player_place"} => NoShotFired
  /\ pc \in {"player_turn", "ai_turn", "win_check", "over"} =>
       FleetComplete("ai") /\ FleetComplete("player")

\* C10 as claimed: Placement(player), Placement(opponent), Turn(human)
\* alternating with Turn(opponent), GameOver: the human's fleet is placed
\* before the opponent's, no shot is fired before both fleets are completely
\* placed, and the first shot is the human's.
C10_HumanPlacesFirst ==
  /\ ships["ai"] # <<>> => FleetComplete("player")
  /\ pc = "player_place" => ships["ai"] = <<>>
  /\ C10_ShotsAfterPlacement

\* The steps from one phase to the next: Placement(opponent) is "ai_place",
\* Placement(player) is "player_place", Turn(human) is "player_turn",
\* Turn(opponent) is "ai_turn" with the win condition that ends the pass,
\* GameOver is "over"; "exit" is the end of the process in random_square.
C10_PhaseStep ==
  \/ pc' = pc
  \/ pc = "ai_place" /\ pc' \in {"player_place", "exit"}
  \/ pc = "player_place" /\ pc' = "player_turn"
  \/ pc = "player_turn" /\ pc' = "ai_turn"
  \/ pc = "ai_turn" /\ pc' \in {"win_check", "exit"}
  \/ pc = "win_check" /\ pc' \in {"player_turn", "over"}

\* C10 as amended: Placement(opponent), Placement(player), Turn(human)
\* alternating with Turn(opponent), GameOver: the opponent's fleet is placed
\* before the human's, no shot is fired before both fleets are completely
\* placed, and the first shot is the human's.
C10_OpponentPlacesFirst ==
  /\ [](/\ ships["player"] # <<>> => FleetComplete("ai")
        /\ pc = "ai_place" => ships["player"] = <<>>
        /\ pc = "player_place" => FleetComplete("ai")
        /\ C10_ShotsAfterPlacement)
  /\ [][C10_PhaseStep]_vars

\* A game has gone through every phase and the human has lost it.
C10_Witness ==
  /\ pc = "over"
  /\ outcome = "LOST"
  /\ FleetComplete("ai")
  /\ FleetComplete("player")

(***************************************************************************)
(* C11.  The order of the fleets.                                          *)
(***************************************************************************)
\* The lengths of a player's ships, in list order.
ShipLengths(p) == [k \in 1..Len(ships[p]) |-> Len(ships[p][k].squares)]

\* The lengths of the hard-coded ships of the player, in list order.
TestLengths == [k \in 1..Len(TEST_SHIPS) |-> TEST_SHIPS[k][3]]

\* s is a prefix of t.
IsPrefix(s, t) == Len(s) <= Len(t) /\ \A k \in 1..Len(s) : s[k] = t[k]

\* s and t hold the same values the same number of times.
SameLengths(s, t) ==
  \A v \in Range(s) \cup Range(t) :
    Cardinality({k \in 1..Len(s) : s[k] = v})
      = Cardinality({k \in 1..Len(t) : t[k] = v})

FiringPhase == pc \in {"player_turn", "ai_turn", "win_check", "over"}

\* C11 as claimed: when the firing phase starts each player's ship list holds
\* the ships of the fleet, with the lengths of SHIP_LENGTHS in list order.
C11_BothFleetsInOrder ==
  FiringPhase => \A p \in Players : ShipLengths(p) = SHIP_LENGTHS

\* C11 as amended: the opponent's placement is sequential in the order of
\* SHIP_LENGTHS and each of its placements succeeds before the next is
\* attempted; the human's ships are placed one after the other from the
\* hard-coded list; when the firing phase starts each ship list holds one
\* ship for every entry of SHIP_LENGTHS, the opponent's with the lengths of
\* SHIP_LENGTHS in list order and the human's with the same lengths in the
\* order of the hard-coded list.
C11_FleetsPlacedInListOrder ==
  /\ IsPrefix(ShipLengths("ai"), SHIP_LENGTHS)
  /\ IsPrefix(ShipLengths("player"), TestLengths)
  /\ pc = "ai_place" => Len(ships["ai"]) = idx - 1
  /\ pc = "player_place" => Len(ships["player"]) = idx - 1
  /\ (PlacementCall /\ call.user = "ai") =>
       call.length = SHIP_LENGTHS[Len(pre.ships["ai"]) + 1]
  /\ (PlacementCall /\ call.user = "player") =>
       /\ call.length = TestLengths[Len(pre.ships["player"]) + 1]
       /\ call.ret = "Ship"
  /\ FiringPhase =>
       /\ ShipLengths("ai") = SHIP_LENGTHS
       /\ ShipLengths("player") = TestLengths
       /\ SameLengths(ShipLengths("player"), SHIP_LENGTHS)
       /\ Len(ships["ai"]) = Len(SHIP_LENGTHS)
       /\ Len(ships["player"]) = Len(SHIP_LENGTHS)

\* The firing phase starts, with the human's ships in another order than
\* SHIP_LENGTHS.
C11_Witness ==
  /\ pc = "player_turn"
  /\ rounds = 0
  /\ Known("player") = 0
  /\ ShipLengths("ai") = SHIP_LENGTHS
  /\ ShipLengths("player") # SHIP_LENGTHS

(***************************************************************************)
(* C12.  The opponent's fleet generation makes a bounded number of         *)
(* placement attempts and ends in a fatal outcome when they are used up:   *)
(* the opponent placement phase never goes on forever.                     *)
(***************************************************************************)
C12_PlacementEnds == <>(pc # "ai_place")

\* The board is a grid of BOARD_HEIGHT rows of BOARD_WIDTH cells.
IsGrid(b) ==
  /\ DOMAIN b = 0..(BOARD_HEIGHT - 1)
  /\ \A r \in DOMAIN b : DOMAIN b[r] = 0..(BOARD_WIDTH - 1)

\* The ships of the list that differ from the ships of the list `before`.
ChangedShips(before, after) ==
  {k \in 1..Len(after) : k > Len(before) \/ after[k] # before[k]}

(***************************************************************************)
(* C13.  A call fire_missile(coord, shooter, target) changes at most the   *)
(* target's board cell at coord, the shooter's knowledge cell at coord and *)
(* the hits and sunk of one ship of the target; the shooter's board and    *)
(* ships, the target's knowledge board, every other cell, the length of    *)
(* both ship lists and the squares of every ship are as before the call.   *)
(* A step that is neither a fire_missile nor a new_valid_ship call changes *)
(* no User, and every board and knowledge board stays a grid of            *)
(* BOARD_HEIGHT rows of BOARD_WIDTH cells.                                 *)
(***************************************************************************)
C13_FireMissileFrame ==
  /\ \A p \in Players : IsGrid(board[p]) /\ IsGrid(knowledge[p])
  /\ ~FireCall /\ ~PlacementCall => Users = pre
  /\ FireCall =>
       LET shooter == call.user
           target == Other(call.user)
       IN  /\ board[shooter] = pre.board[shooter]
           /\ ships[shooter] = pre.ships[shooter]
           /\ knowledge[target] = pre.knowledge[target]
           /\ \A sq \in Squares(board[target]) \ {call.coord} :
                /\ Cell(board[target], sq) = Cell(pre.board[target], sq)
                /\ Cell(knowledge[shooter], sq) = Cell(pre.knowledge[shooter], sq)
           /\ Len(ships[target]) = Len(pre.ships[target])
           /\ \A k \in 1..Len(ships[target]) :
                ships[target][k].squares = pre.ships[target][k].squares
           /\ Cardinality(ChangedShips(pre.ships[target], ships[target])) <= 1
           /\ \A k \in ChangedShips(pre.ships[target], ships[target]) :
                /\ call.coord \in Range(ships[target][k].squares)
                /\ ships[target][k].hits = pre.ships[target][k].hits + 1

\* A shot of the AI has sunk a ship of the player: the cell of the player's
\* board, the cell of the AI's knowledge board and one ship have changed.
C13_Witness ==
  /\ FireCall
  /\ call.user = "ai"
  /\ call.ret = "SUNK"
  /\ Cell(board["player"], call.coord) # Cell(pre.board["player"], call.coord)
  /\ Cell(knowledge["ai"], call.coord) # Cell(pre.knowledge["ai"], call.coord)
  /\ Cardinality(ChangedShips(pre.ships["player"], ships["player"])) = 1

\* The row a letter names, in either case: 'a' is row 0.
RowLetters ==
  <<{"a", "A"}, {"b", "B"}, {"c", "C"}, {"d", "D"}, {"e", "E"}, {"f", "F"},
    {"g", "G"}, {"h", "H"}, {"i", "I"}, {"j", "J"}, {"k", "K"}>>

IsRowLetter(ch) == \E r \in 1..Len(RowLetters) : ch \in RowLetters[r]

RowOf(ch) == (CHOOSE r \in 1..Len(RowLetters) : ch \in RowLetters[r]) - 1

\* The decimal digits and their values: the ASCII digits, and U+0663.
ColumnDigits ==
  <<{"0"}, {"1"}, {"2"}, {"3", "U0663"}, {"4"}, {"5"}, {"6"}, {"7"}, {"8"},
    {"9"}>>

IsColumnDigit(ch) == \E c \in 1..Len(ColumnDigits) : ch \in ColumnDigits[c]

ColumnOf(ch) == (CHOOSE c \in 1..Len(ColumnDigits) : ch \in ColumnDigits[c]) - 1

\* The text is a row letter followed by a column digit that name a square
\* of the board.
WellFormed(text, b) ==
  /\ Len(text) = 2
  /\ IsRowLetter(text[1])
  /\ IsColumnDigit(text[2])
  /\ ColumnOf(text[2]) < BoardWidthOf(b)
  /\ RowOf(text[1]) < BoardHeightOf(b)

DecodeNotationCall == call.op = "decode_notation"

(***************************************************************************)
(* C14.  decode_notation(text, board) returns the coordinate (column, row) *)
(* iff the text is exactly two characters, a row letter in either case     *)
(* ('a' is row 0) followed by a 0-based column digit, and the coordinate   *)
(* is inside the board; for every other text it returns no coordinate.     *)
(***************************************************************************)
C14_DecodeIffWellFormed ==
  DecodeNotationCall =>
    IF WellFormed(call.text, board["player"])
    THEN call.coord = Vec2(ColumnOf(call.text[2]), RowOf(call.text[1]))
    ELSE call.coord = NoVec

(***************************************************************************)
(* C15.  The knowledge board of a shooter and the board of its target      *)
(* agree cell by cell, for both shooter/target pairs: a knowledge cell is  *)
(* HIT iff the target's cell is HIT, MISS iff the target's cell is MISS,   *)
(* and UNKNOWN iff the target's cell is EMPTY or SHIP.                     *)
(***************************************************************************)
C15_KnowledgeAgreesWithBoard ==
  \A shooter \in Players : \A sq \in Squares(knowledge[shooter]) :
    LET k == Cell(knowledge[shooter], sq)
        c == Cell(board[Other(shooter)], sq)
    IN  /\ k = "HIT" <=> c = "HIT"
        /\ k = "MISS" <=> c = "MISS"
        /\ k = "UNKNOWN" <=> c \in {"EMPTY", "SHIP"}

\* Both players have fired, and the human has hit and has missed with
\* squares still unknown.
C15_Witness ==
  /\ FiringPhase
  /\ CellsWith(knowledge["player"], "HIT") # {}
  /\ CellsWith(knowledge["player"], "MISS") # {}
  /\ CellsWith(knowledge["player"], "UNKNOWN") # {}
  /\ Known("ai") > 0

\* How many ships of the list have the coordinate among their squares.
ShipsAt(coord, shipList) ==
  Cardinality({k \in 1..Len(shipList) :
                 \E i \in 1..Len(shipList[k].squares) :
                   shipList[k].squares[i] = coord})

(***************************************************************************)
(* C16.  A cell of a player's board is SHIP or HIT iff its coordinate is   *)
(* a square of exactly one ship of the player's ship list, and EMPTY or    *)
(* MISS iff it is a square of none; and the hits of every ship are the     *)
(* number of its squares whose cell of the board is HIT.                   *)
(***************************************************************************)
C16_BoardMatchesShips ==
  \A p \in Players :
    /\ \A sq \in Squares(board[p]) :
         LET n == ShipsAt(sq, ships[p])
         IN  /\ n <= 1
             /\ Cell(board[p], sq) \in {"SHIP", "HIT"} <=> n = 1
             /\ Cell(board[p], sq) \in {"EMPTY", "MISS"} <=> n = 0
    /\ \A k \in 1..Len(ships[p]) :
         ships[p][k].hits = Cardinality(HitSquares(p, k))

\* A board with a square of each state, and a ship hit once and not sunk.
C16_Witness ==
  \E p \in Players :
    /\ \A v \in {"SHIP", "HIT", "MISS"} : CellsWith(board[p], v) # {}
    /\ \E k \in 1..Len(ships[p]) :
         /\ ships[p][k].hits = 1
         /\ Len(ships[p][k].squares) = 2
         /\ ~ships[p][k].sunk

\* Both fleets are placed: the main loop has been entered.
FiringStarted ==
  /\ Len(ships["ai"]) = Len(SHIP_LENGTHS)
  /\ Len(ships["player"]) = Len(TEST_SHIPS)
  /\ pc # "player_place"

\* The squares a User has not fired at.
Unfired(p) == CellsWith(knowledge[p], "UNKNOWN")

MaxRounds == BOARD_WIDTH * BOARD_HEIGHT

\* The rounds of the main loop are at most width * height, a turn begins
\* with a square its player has not fired at, and the AI's search for an
\* unknown square is never started on a knowledge board without one.
RoundsBounded ==
  /\ rounds <= MaxRounds
  /\ pc \in {"player_turn", "ai_turn"} => rounds < MaxRounds
  /\ pc = "player_turn" => Unfired("player") # {}
  /\ pc = "ai_turn" => Unfired("ai") # {}

(***************************************************************************)
(* C17.  As stated: with a human who enters a valid square not yet fired   *)
(* at on each turn, every game reaches game over after at most             *)
(* width * height rounds, and the AI's search is never started on a        *)
(* knowledge board with no unknown cell.  In finite-run form: the rounds   *)
(* are bounded, every turn has a square to fire at, and a game that has    *)
(* entered the main loop stops nowhere but at game over.                   *)
(***************************************************************************)
C17_EveryGameReachesGameOver ==
  /\ RoundsBounded
  /\ FiringStarted => pc \in {"player_turn", "ai_turn", "win_check", "over"}

(***************************************************************************)
(* C17, amended.  A game that has entered the main loop ends after at most *)
(* width * height rounds, at game over or at the exit(1) of random_square  *)
(* when every one of its LOOP_MAX draws lands on a square the AI has       *)
(* fired at; every turn has a square to fire at, and the exit is never     *)
(* reached on a knowledge board with no unknown cell.                      *)
(***************************************************************************)
C17_GameEndsWithinMaxRounds ==
  /\ RoundsBounded
  /\ FiringStarted =>
       \/ pc \in {"player_turn", "ai_turn", "win_check", "over"}
       \/ /\ pc = "exit"
          /\ rounds < MaxRounds
          /\ Unfired("ai") # {}
          /\ Known("ai") > 0
          /\ Known("player") = rounds + 1
  /\ pc = "over" => rounds >= 1 /\ Known("player") = rounds /\ Known("ai") = rounds

\* A game that is over after width * height rounds: the AI's last search
\* started with one unknown cell and has left none.
C17_Witness ==
  /\ pc = "over"
  /\ rounds = MaxRounds
  /\ Unfired("ai") = {}
  /\ Unfired("player") = {}

====
